---- MODULE Spec2Model ----
(***************************************************************************)
(* A model of the dimension-reduced trust-region optimizers of pydrsom:     *)
(*   "drsom"  : class DRSOMB of src/pydrsom/drsom.py                        *)
(*   "drsomb" : class DRSOMB of src/pydrsom/drsomb.py                       *)
(*   "drsomf" : class DRSOMF of src/pydrsom/drsomnd_profile.py              *)
(*                                                                         *)
(* Spec       the step() state machine of the three optimizers.             *)
(* SpecSolver the trust-region solver (_compute_root, compute_step) as a    *)
(*            pure function over exact rational arithmetic.                 *)
(* SpecModel  the construction of Q and G (update_trust_region).            *)
(*                                                                         *)
(* Positive reals that the code only multiplies, divides and compares       *)
(* (gamma, gammalb, radius, radiusub) are held in the log domain: the       *)
(* integer 1000 * ln(v), so that v * 50 is v + 3912.                        *)
(***************************************************************************)
EXTENDS Integers, Sequences, FiniteSets, TLC

(***************************************************************************)
(* Bounds of the model.                                                     *)
(***************************************************************************)
\* outer iterations (calls of step) explored
MaxSteps == 2
\* passes of the inner while loop explored in one call of step
MaxPasses == 3
\* the constructor argument decay_window: gammalb and radiusub are rescaled
\* at every DecayWindow-th call of step
DecayWindow == 2
\* update_trust_region is followed through the calls with self.iter up to
\* MaxModelIter
MaxModelIter == 2

(***************************************************************************)
(* Program constants, in the log domain (1000 * ln of the value).           *)
(***************************************************************************)
\* gamma = 1e-6
LogGamma0 == -13816
\* gammalb = 1e-12
LogGammaLb0 == -27631
\* gammalb = float(os.environ.get("lb", 1e-10))
LogGammaLb0Env == -23026
\* the floor 1e-4 of max(gamma * beta1, 1e-4)
LogGammaFloor == -9210
\* beta1 = 5e1
LogBeta1 == 3912
\* np.sqrt(beta1)
LogSqrtBeta1 == 1956
\* beta2 = 3e1
LogBeta2 == 3401
\* decay_step = 5e2
LogDecayStep == 6215
\* decay_radius_step = 2e-1
LogDecayRadiusStep == -1609
\* radius = radiusub = 1e1
LogRadius0 == 2303
\* the floor 1e-12 of the radius on a pass with trs_est < 0
LogRadiusFloorNeg == -27631
\* the floor 1e-8 of the radius on a conservative update
LogRadiusFloor == -18421
\* eta, zeta1, zeta2 in hundredths
\* gamma ranges over the multiples of 1 / GammaDen
GammaDen == 4
\* the entries of the metric are multiples of 1 / MetricDen
MetricDen == 4
\* lb + 1e4 in _compute_root, in units of 1000
Pad == 10
\* self.delta_max = 1e1
DeltaMax == 10
\* alpha[0] = 1e-4 is 1 / SmallStepDen
SmallStepDen == 10000
Eta == 8
Zeta1 == 25
Zeta2 == 75

Max(a, b) == IF a >= b THEN a ELSE b
Min(a, b) == IF a <= b THEN a ELSE b

(***************************************************************************)
(* np.log on the log domain.  x is 1000 * ln(g) with g > 1, so ln(g) is     *)
(* the positive real x / 1000, and the result is 1000 * ln(x / 1000).       *)
(* ln of the integer x is k * ln 2 + ln(x / 2^k) with x / 2^k in [1, 2),    *)
(* the latter by the series 2 (z + z^3/3 + z^5/5), z = (m - 1) / (m + 1).   *)
(***************************************************************************)
RECURSIVE Pow2Below(_, _)
Pow2Below(x, p) == IF 2 * p > x THEN p ELSE Pow2Below(x, 2 * p)

RECURSIVE Log2Of(_)
Log2Of(p) == IF p <= 1 THEN 0 ELSE 1 + Log2Of(p \div 2)

LnInt4(x) ==
    LET p  == Pow2Below(x, 1)
        z  == ((x - p) * 10000) \div (x + p)
        z2 == (z * z) \div 10000
        z3 == (z2 * z) \div 10000
        z5 == (z3 * z2) \div 10000
    IN  Log2Of(p) * 6931 + 2 * (z + z3 \div 3 + z5 \div 5)

LogOfLn(x) == (LnInt4(x) - LnInt4(1000)) \div 10


(***************************************************************************)
(*                      The step() state machine                            *)
(***************************************************************************)
VARIABLES
    variant,        \* which optimizer class runs
    directions,     \* self.directions / DRSOM_DIRECTIONS: the momentum roles
    option_tr,      \* self.option_tr: "a" (identity metric), "p" (Gram), or
                    \* "x" for any other value given to the constructor
    max_iter_adj,   \* self._max_iter_adj
    params,         \* the parameter tensors p, one number per parameter
    grad,           \* p.grad after the closure of this step, for the
                    \* parameters p whose p.grad is not None
    state,          \* self.state[p][k]: the momentum buffers
    gamma, gammalb, radius, radiusub,
    iter,           \* self.iter
    pc,             \* "idle", "loop", "exit" or "raised"
    p_copy,         \* the snapshot of _clone_param
    iter_adj, acc_step,
    trs_est, rho,   \* of the last pass of the loop
    d_new,          \* the trial step of the last evaluated pass
    passes,         \* passes of the while loop made by this call
    outcome,        \* how the last call of step ended
    at_entry,       \* the parameters and momentum buffers when step was entered
    restored,       \* a fresh optimizer after load_state_dict(state_dict()),
                    \* while this optimizer has made no step since
    qp,             \* SpecSolver: the subproblem (Q, c, G), gamma, self.iter == 0
    sol,            \* SpecSolver: what compute_step gave for qp
    sol_prev,       \* SpecSolver: what it gave for the gamma before
    mcfg,           \* SpecModel: the variant, qpmode, qpsolver, qp_freq, dim
    mdl             \* SpecModel: self.Q, self.c, self.G and self.iter

solvervars == <<qp, sol, sol_prev>>
modelvars == <<mcfg, mdl>>
cfgvars == <<variant, directions, option_tr, max_iter_adj, solvervars,
             modelvars>>
stepvars == <<variant, directions, option_tr, max_iter_adj, params, grad,
              state, gamma, gammalb, radius, radiusub, iter, pc, p_copy,
              iter_adj, acc_step, trs_est, rho, d_new, passes, outcome,
              at_entry, restored>>
vars == <<stepvars, solvervars, modelvars>>

Variants == {"drsom", "drsomb", "drsomf"}
\* DRSOM_MODE 0, 1, 2, 3
DRSOM_DIRECTIONS == {<<"momentum">>, <<"momentum_g">>,
                     <<"momentum_g", "momentum">>, <<>>}
Roles == {"momentum", "momentum_g"}
Params == {1, 2}
\* the values of the constructor argument max_iter
MaxIterArgs == {1, 2, 3}
AlphaVals == {0, 1}

HasRole(k) == \E i \in 1..Len(directions) : directions[i] = k
IsDRSOMB == variant \in {"drsom", "drsomb"}

Zeros == [p \in Params |-> 0]

\* rho = loss_dec / trs_est: a finite value in hundredths, or what the
\* division of floats gives when trs_est is 0
Fin(v) == [k |-> "fin", v |-> v]
RhoNaN == [k |-> "nan", v |-> 0]
RhoPosInf == [k |-> "pinf", v |-> 0]
RhoNegInf == [k |-> "ninf", v |-> 0]
\* no ratio computed yet
RhoNone == [k |-> "none", v |-> 0]
RhoFinite == {Fin(v) : v \in {Eta, Zeta1, Zeta1 + 1, Zeta2}}
RhoLe(r, z) == r.k = "ninf" \/ (r.k = "fin" /\ r.v <= z)
RhoGe(r, z) == r.k = "pinf" \/ (r.k = "fin" /\ r.v >= z)
RhoGt(r, z) == r.k = "pinf" \/ (r.k = "fin" /\ r.v > z)


(***************************************************************************)
(* Parameters, snapshots and momentum buffers.                              *)
(***************************************************************************)
RoleSet == {directions[i] : i \in 1..Len(directions)}

\* __init__: one zero buffer per parameter and configured role
InitState == [p \in Params |-> [k \in RoleSet |-> 0]]

_clone_param(ps) == [p \in Params |-> ps[p]]

_set_param_keeps_trial(ps, params_data) == ps
_set_param(ps, params_data) == [p \in Params |-> params_data[p]]

_use_new_d(ps, d) == [p \in Params |-> ps[p] + d[p]]

_clear_momentum_keeps_buffers(st) == st
_clear_momentum(st) == [p \in Params |-> [k \in RoleSet |-> 0]]

\* drsomb.py: self.state[p][key] = vlist[p]
\* drsom.py: update_running_stat(vlist[p], self.state[p][key], qp_rate)
_save_momentum_blended(st, vlist, key) ==
    [p \in Params |-> [st[p] EXCEPT ![key] = st[p][key] + vlist[p]]]
_save_momentum(st, vlist, key) ==
    [p \in Params |-> [st[p] EXCEPT ![key] = vlist[p]]]

\* DRSOMF._save_momentum(d(x), d(g)): each configured buffer is overwritten
_save_momentum_f(st, dx, dg) ==
    [p \in Params |-> [k \in RoleSet |->
        IF k = "momentum" THEN dx[p] ELSE dg[p]]]

\* directions = [-g, *(buffer of k for k in directions)]
Direction(i) ==
    IF i = 1 THEN [p \in Params |-> -grad[p]]
    ELSE [p \in Params |-> state[p][directions[i - 1]]]

dim == 1 + Len(directions)

RECURSIVE Combine(_, _, _)
Combine(alpha, i, p) ==
    IF i = 0 THEN 0 ELSE Combine(alpha, i - 1, p) + alpha[i] * Direction(i)[p]

\* d_new[p] = sum_i alpha[i] * directions[i][p]
BuildDirection(alpha) == [p \in Params |-> Combine(alpha, dim, p)]

(***************************************************************************)
(* The snapshot of the optimizer.  The classes define none of their own:    *)
(* they are torch.optim.Optimizer, whose state_dict() holds self.state and  *)
(* self.param_groups (the params and the defaults betas, eps given to       *)
(* super().__init__).  gamma, gammalb, radius, radiusub and iter are plain  *)
(* attributes set by __init__.                                              *)
(***************************************************************************)
\* no optimizer was loaded from a snapshot
NoSnapshot ==
    [taken |-> FALSE, state |-> InitState, gamma |-> 0, radius |-> 0,
     iter |-> 0]

\* state_dict(): the momentum buffers self.state[p][k]
state_dict == [state |-> state]

\* a freshly constructed optimizer of the same class and arguments
Constructed ==
    [taken |-> TRUE, state |-> InitState, gamma |-> LogGamma0,
     radius |-> LogRadius0,
     iter |-> 0]

\* load_state_dict(sd) replaces self.state and self.param_groups
load_state_dict(opt, sd) == [opt EXCEPT !.state = sd.state]

(***************************************************************************)
(* The regularization rules.                                                *)
(***************************************************************************)
\* gamma = max(gamma * beta1, 1e-4)
IncreaseGamma_divides(g) == g - LogBeta1
IncreaseGamma(g) == Max(g + LogBeta1, LogGammaFloor)

\* gamma = max(gammalb, min(gamma / beta2, np.log(gamma))).  For gamma <= 1
\* (g <= 0) np.log(gamma) <= 0 < gamma / beta2, so the min is not positive
\* and the max is gammalb.
DecreaseGamma_without_log(g, lb) == Max(lb, g - LogBeta2)
DecreaseGamma(g, lb) ==
    IF g <= 0 THEN lb ELSE Max(lb, Min(g - LogBeta2, LogOfLn(g)))

\* radius = max(radius / np.sqrt(beta1), 1e-12)
ShrinkRadiusNeg(r) == Max(r - LogSqrtBeta1, LogRadiusFloorNeg)

\* radius = max(radius * decay_radius_step, 1e-8)
ShrinkRadius_unfloored(r) == r + LogDecayRadiusStep
ShrinkRadius(r) == Max(r + LogDecayRadiusStep, LogRadiusFloor)

\* radius = min(radius / decay_radius_step, radiusub)
GrowRadius_uncapped(r, ub) == r - LogDecayRadiusStep
GrowRadius(r, ub) == Min(r - LogDecayRadiusStep, ub)

\* the update of gamma after an evaluated trial
GammaAfter(r, g, lb) ==
    IF RhoLe(r, Zeta1) THEN IncreaseGamma(g)
    ELSE IF RhoGe(r, Zeta2) THEN DecreaseGamma(g, lb)
    ELSE g

\* the update of the radius after an evaluated trial (DRSOMF keeps none)
RadiusAfter(r, rad, ub) ==
    IF variant = "drsomf" THEN rad
    ELSE IF RhoLe(r, Zeta1) THEN ShrinkRadius(rad)
    ELSE IF RhoGe(r, Zeta2) THEN GrowRadius(rad, ub)
    ELSE rad

\* if ((self.iter + 1) % self.decay_window) == 0
DecayDue == variant # "drsomf" /\ (iter + 1) % DecayWindow = 0


(***************************************************************************)
(* What the solver can return.  The reduced model (Q, c, G) is built from   *)
(* the objective's derivatives, which the closure supplies, so in Spec the  *)
(* sign of trs_est and the coefficients alpha are inputs; SpecSolver        *)
(* computes them for given (Q, c, G).                                       *)
(***************************************************************************)
LastDirectionIsZero == \A p \in Params : Direction(dim)[p] = 0

\* DRSOMF.solve_alpha: the root-finding branch is taken unless
\* self.iter == 0 or Q[dim - 1, dim - 1] < 1e-4, and Q[dim - 1, dim - 1] is
\* d^T H d = 0 for a zero last direction d
RootBranchPossible == iter # 0 /\ ~LastDirectionIsZero

\* trs_est < 0 needs Q + lambda * G indefinite, which _compute_root excludes
\* for the identity metric (lambda > lb); DRSOMB's solver is TRS._solve_alpha
TrsNegPossible ==
    IF IsDRSOMB THEN TRUE
    ELSE RootBranchPossible /\ option_tr = "p" /\ dim >= 2

\* torch.linalg.solve raises for a singular Q + lambda * G, and again for
\* lambda + 1e-4, when the directions are linearly dependent
LinAlgErrorPossible ==
    variant = "drsomf" /\ RootBranchPossible /\ option_tr = "p" /\ dim >= 2

\* DRSOMF.compute_step: raise ValueError("unknown option for trust-region
\* option") for an option_tr other than 'a' and 'p'; compute_step of
\* drsomb.py takes torch.eye for every option_tr other than 'p'
UnknownOption == variant = "drsomf" /\ option_tr \notin {"a", "p"}

\* the values of the constructor argument option_tr: __init__ stores it
\* unchecked; DRSOMB of drsom.py has no such argument
OptionsOf(v) ==
    IF v = "drsomf" THEN {"a", "p", "x"}
    ELSE IF v = "drsomb" THEN {"a", "x"}
    ELSE {"a"}

\* the gradients the closure returns
AllGrads == {[p \in Params |-> 0], [p \in Params |-> IF p = 1 THEN 1 ELSE -1]}
\* after the closure the second parameter has no gradient: p.grad is None
MissingGrads == {[p \in {1} |-> 1]}
\* gather_normalized_grad: p.grad.detach() for p in self._params
HasAllGrads(g) == DOMAIN g = Params
Alphas == [1..dim -> AlphaVals]
IsZeroAlpha(alpha) == \A i \in 1..dim : alpha[i] = 0

(***************************************************************************)
(* The subproblem solver of DRSOMF: _norm, _compute_root, solve_alpha and   *)
(* compute_step, in exact rational arithmetic.                              *)
(*   - Q and c are integers, in units of 1000 (Q = 1000 * Qi), so that the  *)
(*     pad 1e4 of _compute_root is Pad = 10 units and the test              *)
(*     Q[dim - 1, dim - 1] < 1e-4 is Qi <= 0;                               *)
(*   - the metric is G / MetricDen for an integer matrix G;                 *)
(*   - gamma is gn / GammaDen;                                              *)
(*   - an eigenvalue e of Q is kept as 2 * e, the multiplier lambda as      *)
(*     lmb = 2 * GammaDen * lambda, alpha as an / ad with ad > 0.           *)
(***************************************************************************)
NoQP == [dim |-> 0]
NoSol == [kind |-> "none", gn |-> 0, lmb |-> 0, an |-> <<>>, ad |-> 1,
          nn |-> 0, nd |-> 1, tn |-> 0, td |-> 1]

Dims == {1, 2}
QVals == {-2, -1, 0, 1, 2}
CVals == {-1, 0, 1}
\* c for the branch of solve_alpha that does not solve a system: also a
\* gradient twenty times the curvature along it
CValsFallback == CVals \cup {-20, 20}

RECURSIVE GCD(_, _)
GCD(a, b) == IF b = 0 THEN a ELSE GCD(b, a % b)
Abs(x) == IF x < 0 THEN -x ELSE x
ISqrt(x) == CHOOSE r \in 0..x : r * r <= x /\ x < (r + 1) * (r + 1)
IsSquare(x) == ISqrt(x) * ISqrt(x) = x

\* a / b < c / d for a, c >= 0 and b, d > 0, by continued fractions
RECURSIVE FracLess(_, _, _, _)
FracLess(a, b, c, d) ==
    IF a \div b # c \div d THEN a \div b < c \div d
    ELSE IF c % d = 0 THEN FALSE
    ELSE IF a % b = 0 THEN TRUE
    ELSE FracLess(d, c % d, b, a % b)

Dot(u, v, n) == IF n = 1 THEN u[1] * v[1] ELSE u[1] * v[1] + u[2] * v[2]
MatVec(A, v, n) == [i \in 1..n |-> Dot(A[i], v, n)]
\* (A @ v).dot(v)
Quad(A, v, n) == Dot(MatVec(A, v, n), v, n)

\* torch.eye(len(c)), over MetricDen
Eye(n) == [i \in 1..n |-> [j \in 1..n |-> IF i = j THEN MetricDen ELSE 0]]

\* the Gram matrices G[i, j] = v_i . v_j of the directions, over MetricDen.
\* step() normalizes the directions: v . v is 1, or 0 for a zero gradient
\* or an empty momentum buffer, and |v_1 . v_2| <= 1, with equality for
\* parallel directions
Grams(n) ==
    IF n = 1 THEN {<<<<0>>>>, <<<<MetricDen>>>>}
    ELSE {<<<<MetricDen, k>>, <<k, MetricDen>>>> : k \in -MetricDen..MetricDen}
         \cup {<<<<0, 0>>, <<0, MetricDen>>>>, <<<<MetricDen, 0>>, <<0, 0>>>>,
               <<<<0, 0>>, <<0, 0>>>>}

\* Q[i, j] = v_i . H v_j and c[i] = g . v_i for the directions v of G: a
\* zero direction gives zero entries, two parallel directions equal ones
\* up to the sign
FromDirections(Q, c, G, n) ==
    /\ \A i \in 1..n : G[i][i] = 0 =>
            c[i] = 0 /\ \A j \in 1..n : Q[i][j] = 0 /\ Q[j][i] = 0
    \* the first direction is -g
    /\ G[1][1] = 0 => \A i \in 1..n : c[i] = 0
    /\ (n = 2 /\ G[1][2] = MetricDen) =>
            Q[1][1] = Q[1][2] /\ Q[1][2] = Q[2][2] /\ c[1] = c[2]
    /\ (n = 2 /\ G[1][2] = -MetricDen) =>
            Q[1][1] = -Q[1][2] /\ Q[1][1] = Q[2][2] /\ c[1] = -c[2]

\* the symmetric Q whose eigenvalues are rational
SymQs(n) ==
    IF n = 1 THEN {<<<<a>>>> : a \in QVals}
    ELSE {<<<<t[1], t[2]>>, <<t[2], t[3]>>>> :
            t \in {u \in QVals \X QVals \X QVals :
                     IsSquare((u[1] - u[3]) * (u[1] - u[3]) + 4 * u[2] * u[2])}}

\* D, V = torch.linalg.eigh(Q); <<min(D), max(D)>>, doubled.  eigh reads
\* the lower triangle of Q.
EigTwice(Q, n) ==
    IF n = 1 THEN <<2 * Q[1][1], 2 * Q[1][1]>>
    ELSE LET t == Q[1][1] + Q[2][2]
             r == ISqrt((Q[1][1] - Q[2][2]) * (Q[1][1] - Q[2][2])
                        + 4 * Q[2][1] * Q[2][1])
         IN  <<t - r, t + r>>

\* lb = max(0, -lmin.item())
StabilizingBound_zero(lmin2) == 0
StabilizingBound(lmin2) == Max(0, -lmin2)

\* lmax = lmax.item() if lmax > lb else lb + 1e4
PaddedLmax_unpadded(lmax2, lb2) == lmax2
PaddedLmax(lmax2, lb2) == IF lmax2 > lb2 THEN lmax2 ELSE lb2 + 2 * Pad

\* _lmb_this = gamma * lmax + max(1 - gamma, 0) * lb
Multiplier_undamped(Q, n, gn) ==
    LET D == EigTwice(Q, n)
        lb2 == StabilizingBound(D[1])
        lmax2 == PaddedLmax(D[2], lb2)
    IN  gn * lmax2
Multiplier(Q, n, gn) ==
    LET D == EigTwice(Q, n)
        lb2 == StabilizingBound(D[1])
        lmax2 == PaddedLmax(D[2], lb2)
    IN  gn * lmax2 + Max(GammaDen - gn, 0) * lb2

\* Q + tr * _lmb_this, times 2 * GammaDen * MetricDen
Shifted(Q, tr, lmb, n) ==
    [i \in 1..n |-> [j \in 1..n |->
        2 * GammaDen * MetricDen * Q[i][j] + lmb * tr[i][j]]]

Det(M, n) ==
    IF n = 1 THEN M[1][1] ELSE M[1][1] * M[2][2] - M[1][2] * M[2][1]

\* adj(M) b: the solution of M x = b is AdjTimes(M, b, n) / Det(M, n)
AdjTimes(M, b, n) ==
    IF n = 1 THEN <<b[1]>>
    ELSE <<M[2][2] * b[1] - M[1][2] * b[2], M[1][1] * b[2] - M[2][1] * b[1]>>

\* the fraction of vectors x / den in lowest terms with a positive
\* denominator
Lowest(x, den, n) ==
    LET g0 == GCD(Abs(den), Abs(x[1]))
        g == IF n = 1 THEN g0 ELSE GCD(g0, Abs(x[2]))
        sg == IF den < 0 THEN -g ELSE g
    IN  [an |-> [i \in 1..n |-> x[i] \div sg], ad |-> den \div sg]

Sol(kind, gn, lmb, a, nn, nd) ==
    [kind |-> kind, gn |-> gn, lmb |-> lmb, an |-> a.an, ad |-> a.ad,
     nn |-> nn, nd |-> nd, tn |-> 0, td |-> 1]

\* _norm(alpha, tr) squared, as the fraction <<numerator, denominator>>
_norm(a, tr, n) == <<Quad(tr, a.an, n), MetricDen * a.ad * a.ad>>

\* lsolve(Q + tr * _lmb_this, -c) raises LinAlgError
FirstSolveSingular(Q, tr, gn, n) ==
    Det(Shifted(Q, tr, Multiplier(Q, n, gn), n), n) = 0

\* lsolve(Q + tr * (_lmb_this + 1e-4), -c) raises too: det(Q + x * tr) is a
\* polynomial of degree <= 2 in x, and it is zero at _lmb_this + 1e-4 as
\* well only if it is zero everywhere
SecondSolveSingular(Q, tr, gn, n) ==
    /\ Det(Shifted(Q, tr, Multiplier(Q, n, gn) + 1, n), n) = 0
    /\ Det(Shifted(Q, tr, Multiplier(Q, n, gn) + 2, n), n) = 0

\* alpha = lsolve(Q + tr * _lmb_this, -c)
RootAlpha(Q, c, gn, tr, n) ==
    LET M == Shifted(Q, tr, Multiplier(Q, n, gn), n)
        x == AdjTimes(M, [i \in 1..n |-> -c[i]], n)
    IN  Lowest([i \in 1..n |-> 2 * GammaDen * MetricDen * x[i]], Det(M, n), n)

_compute_root(Q, c, gn, tr, n) ==
    LET lmb == Multiplier(Q, n, gn)
        alpha == RootAlpha(Q, c, gn, tr, n)
        norm == _norm(alpha, tr, n)
    IN  IF FirstSolveSingular(Q, tr, gn, n)
        THEN Sol("raised", gn, lmb, [an |-> [i \in 1..n |-> 0], ad |-> 1], 0, 1)
        ELSE Sol("root", gn, lmb, alpha, norm[1], norm[2])

\* the branch of solve_alpha for self.iter == 0 or Q[dim - 1, dim - 1] < 1e-4
Fallback(Q, c, gn, tr, n) ==
    LET a0 == IF Q[1][1] > 0
              THEN Lowest(<<-c[1] * GammaDen>>, Q[1][1] * (GammaDen + gn), 1)
              ELSE [an |-> <<1>>, ad |-> SmallStepDen]
        alpha == [an |-> [i \in 1..n |-> IF i = 1 THEN a0.an[1] ELSE 0],
                  ad |-> a0.ad]
        norm == _norm(alpha, tr, n)
        \* alpha / alpha.norm() * self.delta_max
        clipped == [an |-> [i \in 1..n |->
                              IF i # 1 THEN 0
                              ELSE IF alpha.an[1] < 0 THEN -DeltaMax
                              ELSE DeltaMax],
                    ad |-> 1]
    IN  IF FracLess(DeltaMax * DeltaMax, 1, norm[1], norm[2])
        THEN Sol("fallback", gn, 0, clipped, norm[1], norm[2])
        ELSE Sol("fallback", gn, 0, alpha, norm[1], norm[2])

solve_alpha(q, tr) ==
    IF q.first \/ q.Q[q.dim][q.dim] <= 0
    THEN Fallback(q.Q, q.c, q.gn, tr, q.dim)
    ELSE _compute_root(q.Q, q.c, q.gn, tr, q.dim)

\* trs_est = -1/2 * (Q @ alpha).dot(alpha) - c.dot(alpha), as tn / td
compute_step(q) ==
    LET tr == IF q.tr = "a" THEN Eye(q.dim) ELSE q.G
        r == solve_alpha(q, tr)
    IN  IF r.kind = "raised" THEN r
        ELSE [r EXCEPT
                !.tn = -Quad(q.Q, r.an, q.dim) - 2 * r.ad * Dot(q.c, r.an, q.dim),
                !.td = 2 * r.ad * r.ad]

\* the inputs the exact arithmetic can follow: not those for which the first
\* solve is singular and the second, with lambda + 1e-4, is not, nor those
\* whose alpha in lowest terms has a numerator or a denominator of more
\* than four digits, nor a c outside CVals in the root-finding branch
Representable(q) ==
    LET tr == IF q.tr = "a" THEN Eye(q.dim) ELSE q.G
        r == RootAlpha(q.Q, q.c, q.gn, tr, q.dim)
    IN  (~q.first /\ q.Q[q.dim][q.dim] > 0) =>
            IF \E i \in 1..q.dim : q.c[i] \notin CVals
            THEN FALSE
            ELSE IF FirstSolveSingular(q.Q, tr, q.gn, q.dim)
            THEN SecondSolveSingular(q.Q, tr, q.gn, q.dim)
            ELSE /\ r.ad <= 9999
                 /\ \A i \in 1..q.dim : Abs(r.an[i]) <= 9999

Gammas == 1..(GammaDen + 1)

QPs ==
    UNION {{q \in [dim : {n}, Q : SymQs(n), c : [1..n -> CValsFallback],
                   G : Grams(n), tr : {"a", "p"}, gn : Gammas,
                   first : BOOLEAN] :
              /\ q.tr = "a" => q.G = Eye(n)
              /\ FromDirections(q.Q, q.c, q.G, n)
              /\ Representable(q)} : n \in Dims}

(***************************************************************************)
(* The reduced model: update_trust_region builds G, c and Q from the        *)
(* directions, by Hessian-vector products or by interpolation.              *)
(***************************************************************************)
\* no configuration chosen
NoModel == [variant |-> "none", qpmode |-> "none", metric |-> "none",
            qp_freq |-> 1, dim |-> 0, option_tr |-> "none"]
QPModes == {"AutomaticDiff", "FiniteDiff", "Interpolation"}
\* "gram": qpsolver in {QRegP, TRSP}; "eye": any other qpsolver
MetricOptions == {"gram", "eye"}
ModelDims == {1, 2, 3}
\* self.freq = 1 in drsomb.py and in DRSOMF; decayrule.qp_freq in drsom.py
QPFreqs == {1, 2}

\* drsomb.py and DRSOMF always build the Gram matrix, with self.freq = 1,
\* and take the metric of compute_step from option_tr; drsom.py takes it
\* from qpsolver.  DRSOMF has Hessian-vector products only
ModelConfigs ==
    {m \in [variant : Variants, qpmode : QPModes, metric : MetricOptions,
            qp_freq : QPFreqs, dim : ModelDims, option_tr : {"a", "p"}] :
        /\ m.variant # "drsom" =>
              m.metric = "gram" /\ m.qp_freq = 1 /\ m.qpmode # "FiniteDiff"
        /\ m.variant = "drsom" => (m.option_tr = "a" <=> m.metric = "eye")
        /\ m.variant = "drsomf" => m.qpmode = "AutomaticDiff"}

\* the trust region of compute_step is the ball of the identity
Isotropic(m) ==
    IF m.variant = "drsom" THEN m.metric = "eye" ELSE m.option_tr = "a"

\* the loops over torch.mul(u, v).sum() for G run in update_trust_region
ComputesGram(m) == m.variant # "drsom" \/ m.metric = "gram"

\* the directions, the Hessians and the fitted coefficients of the inputs
DirVecs == {<<1, 0>>, <<0, 1>>, <<1, 1>>}
Hessians == {<<<<0, 0>>, <<0, 0>>>>, <<<<1, 0>>, <<0, 1>>>>,
             <<<<1, 1>>, <<1, 0>>>>, <<<<0, 1>>, <<1, -1>>>>}
\* q of np.linalg.solve(K, df), indexed from 0
Fits(n) ==
    {[k \in 0..((n * (n + 1)) \div 2 - 1) |-> 0],
     [k \in 0..((n * (n + 1)) \div 2 - 1) |-> k + 1],
     [k \in 0..((n * (n + 1)) \div 2 - 1) |-> IF k = 0 THEN 1 ELSE -k]}
\* the Hessian is used by the products, the fit by the interpolation
HessiansOf(m) ==
    IF m.qpmode = "Interpolation" THEN {<<<<0, 0>>, <<0, 0>>>>} ELSE Hessians
FitsOf(m) ==
    IF m.qpmode = "Interpolation" THEN Fits(m.dim)
    ELSE {[k \in 0..((m.dim * (m.dim + 1)) \div 2 - 1) |-> 0]}

\* torch.mul(u, v).sum() over the parameters
VDot(u, v) == u[1] * v[1] + u[2] * v[2]
\* hv(directions[j]): the Hessian-vector product
Hv(H, v) == <<VDot(H[1], v), VDot(H[2], v)>>

ZeroMatrix(n) == [i \in 1..n |-> [j \in 1..n |-> 0]]

\* for i in range(dim): for j in range(i): A[i, j] = A[j, i]
MirrorUpper_skipped(A, n) == A
MirrorUpper(A, n) ==
    [i \in 1..n |-> [j \in 1..n |-> IF j < i THEN A[j][i] ELSE A[i][j]]]

\* for i: for j in range(i, dim): Q[i, j] += sum_p u_i[p] * Hv_j[p]
compute_Q_via_hvp(dirs, H, n) ==
    MirrorUpper([i \in 1..n |-> [j \in 1..n |->
        IF i <= j THEN VDot(dirs[i], Hv(H, dirs[j])) ELSE 0]], n)

\* Q[i, j] = q[int(j * (j + 1) / 2) + i] for i <= j, indices from 0
compute_Q_via_interpolation(q, n) ==
    MirrorUpper([i \in 1..n |-> [j \in 1..n |->
        IF i <= j THEN q[((j - 1) * j) \div 2 + (i - 1)] ELSE 0]], n)

\* build_natural_basis(v) lists v[i] * v[j] (halved for i = j) for i in
\* range(len), for j in range(i, len): the place of (i, j), i <= j, in that
\* list, counted from 0, for i, j counted from 1
BasisIndex(i, j, n) == (i - 1) * n - ((i - 1) * (i - 2)) \div 2 + (j - i)

\* an objective that is exactly quadratic with the symmetric Hessian H:
\* loss_est - fx - ff[j] is 1/2 a^T Q* a with Q*[i][j] = d_i^T H d_j
QuadraticHessians ==
    {[i \in 1..2 |-> [j \in 1..2 |-> 3 * H[i][j]]] : H \in Hessians}
ExactQ(dirs, H, n) ==
    [i \in 1..n |-> [j \in 1..n |-> VDot(dirs[i], Hv(H, dirs[j]))]]

\* sampling(): drsom.py takes 2 points on every axis and 2 points with all
\* coordinates equal, so that for dim = 3 the rows of K span 4 of the 6
\* unknowns; drsomb.py takes 2 points on every axis and dim (dim - 1) / 2
\* random points, and the rows of K span all unknowns
SamplesDetermineQ(m) == m.variant # "drsom" \/ m.dim <= 2

\* q of np.linalg.lstsq(K, df) for df[j] = 1/2 a_j^T Q* a_j, in the order of
\* build_natural_basis.  Where the samples determine it, q is Q*; for the
\* samples of drsom.py with dim = 3 the points on the axes give the diagonal
\* and the other two give only the sum of the entries off the diagonal,
\* which the solution of least norm spreads evenly.
LeastSquaresFit(m, Qs) ==
    LET n == m.dim
        off == {pr \in (1..n) \X (1..n) : pr[1] < pr[2]}
        S == Qs[1][2] + Qs[1][3] + Qs[2][3]
    IN  [k \in 0..((n * (n + 1)) \div 2 - 1) |->
            LET ij == CHOOSE pr \in (1..n) \X (1..n) :
                        pr[1] <= pr[2] /\ BasisIndex(pr[1], pr[2], n) = k
            IN  IF ~SamplesDetermineQ(m) /\ ij \in off
                THEN S \div 3
                ELSE Qs[ij[1]][ij[2]]]

\* what the closure returns at the sampled points: any values, for which
\* the fit q is an input, or those of an exactly quadratic objective
ObjectivesOf(m) ==
    {[exact |-> FALSE, H |-> o[1], q |-> o[2]] :
        o \in HessiansOf(m) \X FitsOf(m)}
    \cup (IF m.qpmode = "Interpolation"
          THEN {[exact |-> TRUE, H |-> H, q |-> <<>>] : H \in QuadraticHessians}
          ELSE {})

\* the inner products of the directions, or the eye matrix
BuildG(dirs, metric, n) ==
    IF metric = "gram"
    THEN MirrorUpper([i \in 1..n |-> [j \in 1..n |->
             IF i <= j THEN VDot(dirs[i], dirs[j]) ELSE 0]], n)
    ELSE [i \in 1..n |-> [j \in 1..n |-> IF i = j THEN 1 ELSE 0]]

\* DRSOMF: G[i, j] = G[j, i] = v.dot(u) and Q[i, j] = Q[j, i] = v.dot(Hv[j])
BuildG_f(dirs, n) ==
    [i \in 1..n |-> [j \in 1..n |->
        IF i <= j THEN VDot(dirs[i], dirs[j]) ELSE VDot(dirs[j], dirs[i])]]
BuildQ_f(dirs, H, n) ==
    [i \in 1..n |-> [j \in 1..n |->
        IF i <= j THEN VDot(dirs[i], Hv(H, dirs[j]))
        ELSE VDot(dirs[j], Hv(H, dirs[i]))]]

\* c[i] = sum_p p.grad * directions[i][p]
BuildC(dirs, g, n) == [i \in 1..n |-> VDot(g, dirs[i])]

\* self.Q, self.c, self.G after __init__, and self.iter; c_built and
\* G_built are the c and the G that the last call of update_trust_region
\* computed from its directions
InitModel ==
    [Q |-> ZeroMatrix(2), c |-> <<0, 0>>, G |-> ZeroMatrix(2), iter |-> 0,
     status |-> "init", Qstar |-> <<>>, c_built |-> <<0, 0>>,
     G_built |-> ZeroMatrix(2), gram |-> FALSE, q_fit |-> <<>>]

\* update_trust_region(p_copy, directions, fx, closure)
update_trust_region(m, md, dirs, g, H, q) ==
    LET n == m.dim
        Gnew == IF m.variant = "drsomf" THEN BuildG_f(dirs, n)
                ELSE BuildG(dirs, m.metric, n)
        cnew == BuildC(dirs, g, n)
        Qnew == IF m.variant = "drsomf" THEN BuildQ_f(dirs, H, n)
                ELSE IF m.qpmode = "Interpolation"
                THEN compute_Q_via_interpolation(q, n)
                ELSE compute_Q_via_hvp(dirs, H, n)
    IN  IF md.iter % m.qp_freq # 0
        THEN \* drsom.py: pass; self.Q, self.c, self.G stay
             [md EXCEPT !.status = "skipped", !.c_built = cnew,
                        !.G_built = Gnew, !.gram = ComputesGram(m)]
        ELSE IF m.qpmode = "FiniteDiff"
        THEN \* raise ValueError("the finite diff option is unused,")
             [md EXCEPT !.status = "raised", !.c_built = cnew,
                        !.G_built = Gnew, !.gram = ComputesGram(m)]
        ELSE [md EXCEPT !.Q = Qnew, !.c = cnew, !.G = Gnew,
                        !.status = "updated", !.c_built = cnew,
                        !.G_built = Gnew, !.gram = ComputesGram(m)]

(***************************************************************************)
(* Init: the optimizer after __init__.                                      *)
(***************************************************************************)
Init ==
    /\ variant \in Variants
    /\ directions \in DRSOM_DIRECTIONS
    /\ option_tr \in OptionsOf(variant)
    /\ max_iter_adj \in MaxIterArgs
    /\ params = Zeros
    /\ grad = Zeros
    /\ state = InitState
    /\ gamma = LogGamma0
    /\ gammalb = IF variant = "drsom" THEN LogGammaLb0Env ELSE LogGammaLb0
    /\ radius = LogRadius0
    /\ radiusub = LogRadius0
    /\ iter = 0
    /\ pc = "idle"
    /\ p_copy = Zeros
    /\ iter_adj = 1
    /\ acc_step = FALSE
    /\ trs_est = 0
    /\ rho = RhoNone
    /\ d_new = Zeros
    /\ passes = 0
    /\ outcome = "none"
    /\ at_entry = [params |-> Zeros, state |-> InitState]
    /\ restored = NoSnapshot
    /\ qp = NoQP
    /\ sol = NoSol
    /\ sol_prev = NoSol
    /\ mcfg = NoModel
    /\ mdl = InitModel

(***************************************************************************)
(* step(): from the call to the head of the while loop.                     *)
(***************************************************************************)
StepEnter ==
    /\ pc = "idle"
    /\ iter < MaxSteps
    /\ \E g \in AllGrads \cup MissingGrads :
          /\ grad' = g
          \* p.grad.detach() of None raises AttributeError, after the decay
          \* rule, the closure and _clone_param
          /\ pc' = IF HasAllGrads(g) THEN "loop" ELSE "raised"
          /\ outcome' = IF HasAllGrads(g) THEN "none" ELSE "EXCEPTION"
    /\ gammalb' = IF DecayDue THEN gammalb + LogDecayStep ELSE gammalb
    /\ radiusub' = IF DecayDue THEN radiusub + LogDecayRadiusStep ELSE radiusub
    /\ p_copy' = _clone_param(params)
    /\ acc_step' = FALSE
    /\ iter_adj' = 1
    /\ trs_est' = 0
    /\ rho' = RhoNone
    /\ d_new' = Zeros
    /\ passes' = 0
    /\ at_entry' = [params |-> params, state |-> state]
    /\ restored' = NoSnapshot
    /\ UNCHANGED <<cfgvars, params, state, gamma, radius, iter>>

(***************************************************************************)
(* One pass of the while loop with trs_est < 0: gamma is increased and the  *)
(* loop continues; iter_adj is not incremented.                             *)
(***************************************************************************)
LoopNegative ==
    /\ pc = "loop"
    /\ iter_adj < max_iter_adj
    /\ passes < MaxPasses
    /\ ~UnknownOption
    /\ TrsNegPossible
    /\ trs_est' = -1
    /\ gamma' = IncreaseGamma(gamma)
    /\ radius' = IF IsDRSOMB THEN ShrinkRadiusNeg(radius) ELSE radius
    /\ passes' = passes + 1
    /\ UNCHANGED <<cfgvars, params, grad, state, gammalb, radiusub, iter, pc,
                   p_copy, iter_adj, acc_step, rho, d_new, outcome,
                   at_entry, restored>>

(***************************************************************************)
(* One pass in which the linear solve of _compute_root raises twice.        *)
(***************************************************************************)
LoopLinAlgError ==
    /\ pc = "loop"
    /\ iter_adj < max_iter_adj
    /\ passes < MaxPasses
    /\ LinAlgErrorPossible
    /\ pc' = "raised"
    /\ outcome' = "EXCEPTION"
    /\ passes' = passes + 1
    /\ UNCHANGED <<cfgvars, params, grad, state, gamma, gammalb, radius,
                   radiusub, iter, p_copy, iter_adj, acc_step, trs_est, rho,
                   d_new, at_entry, restored>>


(***************************************************************************)
(* One pass in which compute_step raises for the unknown option_tr.         *)
(***************************************************************************)
LoopValueError ==
    /\ pc = "loop"
    /\ iter_adj < max_iter_adj
    /\ passes < MaxPasses
    /\ UnknownOption
    /\ pc' = "raised"
    /\ outcome' = "EXCEPTION"
    /\ passes' = passes + 1
    /\ UNCHANGED <<cfgvars, params, grad, state, gamma, gammalb, radius,
                   radiusub, iter, p_copy, iter_adj, acc_step, trs_est, rho,
                   d_new, at_entry, restored>>

(***************************************************************************)
(* One pass with trs_est >= 0: the trial point is evaluated, gamma and the  *)
(* radius are updated from rho, and the trial is accepted or undone.        *)
(***************************************************************************)
\* the trial point: DRSOMB adds d_new to the parameters in place, DRSOMF
\* writes flat_p + flat_new_d, flat_p being the vector taken at step entry
TrialPoint(d) ==
    IF IsDRSOMB THEN _use_new_d(params, d)
    ELSE [p \in Params |-> p_copy[p] + d[p]]

\* acc_step = rho > eta
Accepts_at_eta(r) == RhoGe(r, Eta)
Accepts(r) == RhoGt(r, Eta)

\* the ratios loss_dec / trs_est can give for a trs_est of sign s
RhoOf(s) == IF s = 0 THEN {RhoNaN, RhoPosInf, RhoNegInf} ELSE RhoFinite

LoopTrial ==
    /\ pc = "loop"
    /\ iter_adj < max_iter_adj
    /\ passes < MaxPasses
    /\ ~UnknownOption
    /\ \E alpha \in Alphas, s \in {0, 1} :
       \E r \in RhoOf(s) :
          LET d == BuildDirection(alpha)
              trial == TrialPoint(d)
          IN  /\ IsZeroAlpha(alpha) => s = 0
              /\ trs_est' = s
              /\ rho' = r
              /\ d_new' = d
              /\ gamma' = GammaAfter(r, gamma, gammalb)
              /\ radius' = RadiusAfter(r, radius, radiusub)
              /\ acc_step' = Accepts(r)
              /\ passes' = passes + 1
              /\ IF ~Accepts(r)
                 THEN \* set back to old ~ trial step failed
                      /\ params' = _set_param(trial, p_copy)
                      /\ iter_adj' = iter_adj + 1
                      /\ UNCHANGED <<grad, state, pc, outcome>>
                 ELSE /\ params' = trial
                      /\ iter_adj' = iter_adj
                      /\ IF HasRole("momentum_g")
                         THEN \* _loss = closure()
                              \E g_new \in AllGrads :
                                /\ grad' = g_new
                                /\ IF IsDRSOMB
                                   THEN \* raise ValueError("not implemented")
                                        /\ pc' = "raised"
                                        /\ outcome' = "EXCEPTION"
                                        /\ UNCHANGED state
                                   ELSE /\ state' = _save_momentum_f(state, d,
                                              [p \in Params |-> g_new[p] - grad[p]])
                                        /\ pc' = "exit"
                                        /\ UNCHANGED outcome
                         ELSE /\ state' = IF HasRole("momentum")
                                          THEN IF IsDRSOMB
                                               THEN _save_momentum(state, d, "momentum")
                                               ELSE _save_momentum_f(state, d, Zeros)
                                          ELSE state
                              /\ pc' = "exit"
                              /\ UNCHANGED <<grad, outcome>>
    /\ UNCHANGED <<cfgvars, gammalb, radiusub, iter, p_copy, at_entry,
                   restored>>

(***************************************************************************)
(* After the loop: self.iter += 1, the restart when no trial was accepted,  *)
(* and the return.                                                          *)
(***************************************************************************)
StepReturn ==
    /\ \/ pc = "loop" /\ ~(iter_adj < max_iter_adj)
       \/ pc = "exit"
    /\ iter' = iter + 1
    /\ IF ~acc_step
       THEN /\ state' = _clear_momentum(state)
            /\ gamma' = gammalb
            /\ outcome' = "REJECT_FINAL"
       ELSE /\ outcome' = "ACCEPT"
            /\ UNCHANGED <<state, gamma>>
    /\ pc' = "idle"
    \* the locals of step() end with the call
    /\ p_copy' = Zeros
    /\ iter_adj' = 1
    /\ acc_step' = FALSE
    /\ trs_est' = 0
    /\ rho' = RhoNone
    /\ d_new' = Zeros
    /\ passes' = 0
    /\ UNCHANGED <<cfgvars, params, grad, gammalb, radius, radiusub, at_entry,
                   restored>>

(***************************************************************************)
(* Between two calls of step: the snapshot of the optimizer is taken and    *)
(* loaded into a freshly constructed one.                                   *)
(***************************************************************************)
Checkpoint ==
    /\ pc = "idle"
    /\ ~restored.taken
    /\ restored' = load_state_dict(Constructed, state_dict)
    /\ UNCHANGED <<cfgvars, params, grad, state, gamma, gammalb, radius,
                   radiusub, iter, pc, p_copy, iter_adj, acc_step, trs_est,
                   rho, d_new, passes, outcome, at_entry>>

Next ==
    \/ StepEnter
    \/ LoopNegative
    \/ LoopLinAlgError
    \/ LoopValueError
    \/ LoopTrial
    \/ StepReturn
    \/ Checkpoint

Spec == Init /\ [][Next]_vars

(***************************************************************************)
(* SpecRules: the loop of the first call of step of an optimizer built     *)
(* with the default max_iter, followed through gamma, the radius, rho,      *)
(* iter_adj and acc_step alone: up to max_iter - 1 trials, each rejected    *)
(* one followed by the next.  What the solver and the closure return is    *)
(* the choice of rho; the parameters and the momentum are not followed.     *)
(***************************************************************************)
\* max_iter=15
DefaultMaxIter == 15

InitRules ==
    /\ variant \in Variants
    /\ directions = <<"momentum">>
    /\ option_tr = "a"
    /\ max_iter_adj = DefaultMaxIter
    /\ params = Zeros
    /\ grad = Zeros
    /\ state = InitState
    /\ gamma = LogGamma0
    /\ gammalb = IF variant = "drsom" THEN LogGammaLb0Env ELSE LogGammaLb0
    /\ radius = LogRadius0
    /\ radiusub = LogRadius0
    /\ iter = 0
    /\ pc = "loop"
    /\ p_copy = Zeros
    /\ iter_adj = 1
    /\ acc_step = FALSE
    /\ trs_est = 0
    /\ rho = RhoNone
    /\ d_new = Zeros
    /\ passes = 0
    /\ outcome = "none"
    /\ at_entry = [params |-> Zeros, state |-> InitState]
    /\ restored = NoSnapshot
    /\ qp = NoQP
    /\ sol = NoSol
    /\ sol_prev = NoSol
    /\ mcfg = NoModel
    /\ mdl = InitModel

\* rho = loss_dec / trs_est for trs_est >= 0
RhoValues == RhoFinite \cup {RhoNaN, RhoPosInf, RhoNegInf}

\* one pass of the loop with trs_est >= 0: rho, the update of gamma and of
\* the radius, acc_step, and iter_adj += 1 or break
EvaluateTrial ==
    /\ pc = "loop"
    /\ iter_adj < max_iter_adj
    /\ \E r \in RhoValues :
          /\ rho' = r
          /\ gamma' = GammaAfter(r, gamma, gammalb)
          /\ radius' = RadiusAfter(r, radius, radiusub)
          /\ acc_step' = Accepts(r)
          /\ iter_adj' = IF Accepts(r) THEN iter_adj ELSE iter_adj + 1
          /\ pc' = IF Accepts(r) THEN "exit" ELSE "loop"
    /\ passes' = passes + 1
    /\ UNCHANGED <<cfgvars, params, grad, state, gammalb, radiusub, iter,
                   p_copy, trs_est, d_new, outcome, at_entry, restored>>

NextRules == EvaluateTrial

SpecRules == InitRules /\ [][NextRules]_vars

(***************************************************************************)
(* SpecSolver: compute_step applied to a subproblem, and applied again      *)
(* after gamma was raised.                                                  *)
(***************************************************************************)
\* the optimizer is constructed and step is not running
StepIdle ==
    /\ variant = "drsomf"
    /\ directions = <<"momentum">>
    /\ option_tr = "p"
    /\ max_iter_adj = 2
    /\ params = Zeros
    /\ grad = Zeros
    /\ state = InitState
    /\ gamma = LogGamma0
    /\ gammalb = LogGammaLb0
    /\ radius = LogRadius0
    /\ radiusub = LogRadius0
    /\ iter = 0
    /\ pc = "idle"
    /\ p_copy = Zeros
    /\ iter_adj = 1
    /\ acc_step = FALSE
    /\ trs_est = 0
    /\ rho = RhoNone
    /\ d_new = Zeros
    /\ passes = 0
    /\ outcome = "none"
    /\ at_entry = [params |-> Zeros, state |-> InitState]
    /\ restored = NoSnapshot

InitSolver ==
    /\ StepIdle
    /\ mcfg = NoModel
    /\ mdl = InitModel
    /\ qp \in QPs
    /\ sol = NoSol
    /\ sol_prev = NoSol

ComputeStep ==
    /\ sol.kind = "none"
    /\ sol' = compute_step(qp)
    /\ UNCHANGED <<qp, sol_prev, stepvars, modelvars>>

ComputeStepAgain ==
    /\ sol.kind \in {"root", "fallback"}
    /\ \E g \in Gammas :
          /\ g > qp.gn
          /\ Representable([qp EXCEPT !.gn = g])
          /\ qp' = [qp EXCEPT !.gn = g]
          /\ sol' = compute_step([qp EXCEPT !.gn = g])
    /\ sol_prev' = sol
    /\ UNCHANGED <<stepvars, modelvars>>

NextSolver == ComputeStep \/ ComputeStepAgain

SpecSolver == InitSolver /\ [][NextSolver]_vars

(***************************************************************************)
(* Properties of step().                                                    *)
(***************************************************************************)
\* C1: every call of step ends in ACCEPT or REJECT-FINAL, in every direction
\* mode, for DRSOMB (drsom.py, drsomb.py) and DRSOMF: no exception is raised
\* inside the inner loop.
C1_StepEndsInAcceptOrRejectFinal ==
    /\ pc # "raised"
    /\ outcome \in {"none", "ACCEPT", "REJECT_FINAL"}

\* C2: the inner loop makes at most max_iter passes in one call of step,
\* whatever the solver returns, trs_est < 0 included.
C2_AtMostMaxIterPasses == passes <= max_iter_adj

\* C3: whenever control is at the head of the loop, and after REJECT-FINAL,
\* the parameters are the snapshot _clone_param took at the entry of step:
\* a rejected trial leaves nothing behind.
C3_RejectionRestoresSnapshot ==
    /\ pc = "loop" => p_copy = at_entry.params /\ params = p_copy
    /\ (pc = "idle" /\ outcome = "REJECT_FINAL") => params = at_entry.params

\* two trials with a nonzero step were rejected one after the other
C3_Witness ==
    /\ pc = "loop"
    /\ iter_adj = 3
    /\ trs_est >= 0
    /\ d_new # Zeros
    /\ at_entry.params # Zeros

\* C4: when a call of step has ended in REJECT-FINAL every momentum buffer
\* is zero and gamma equals gammalb.
C4_RejectFinalClearsMomentum ==
    (pc = "idle" /\ outcome = "REJECT_FINAL") =>
        /\ \A p \in Params : \A k \in RoleSet : state[p][k] = 0
        /\ gamma = gammalb

\* a REJECT-FINAL of a call that was entered with a nonzero momentum buffer
C4_Witness ==
    /\ pc = "idle"
    /\ outcome = "REJECT_FINAL"
    /\ \E p \in Params : \E k \in RoleSet : at_entry.state[p][k] # 0

\* C5: a trial is accepted iff rho > eta, strictly; an accepted trial ends
\* the loop at once, and the parameters then are the snapshot plus the
\* accepted trial step, with nothing left of the rejected trials before it.
C5_AcceptIffRhoAboveEta ==
    /\ rho.k # "none" =>
          (acc_step <=> (rho.k = "pinf" \/ (rho.k = "fin" /\ rho.v > Eta)))
    /\ (pc = "loop" /\ rho.k # "none") => ~acc_step
    /\ acc_step => /\ pc \in {"exit", "raised"}
                   /\ \A p \in Params : params[p] = p_copy[p] + d_new[p]
                   /\ ~ENABLED LoopTrial
                   /\ ~ENABLED LoopNegative
                   /\ ~ENABLED LoopLinAlgError

\* a trial accepted after a rejected one, and a trial with rho = eta
C5_Witness ==
    /\ pc = "exit"
    /\ iter_adj >= 2
    /\ d_new # Zeros
    /\ at_entry.params # Zeros

\* the pass of the loop that evaluated a trial with rho >= zeta2
AggressivePass ==
    /\ pc = "loop"
    /\ passes' = passes + 1
    /\ acc_step'
    /\ RhoGe(rho', Zeta2)

\* C10 as stated: after a trial with rho >= zeta2 the radius is strictly
\* larger than before and at most radiusub, and gamma is strictly smaller
\* than before unless it was gammalb already.
C10_AggressiveGrowsRadius ==
    [][(AggressivePass /\ IsDRSOMB) =>
          /\ radius' > radius
          /\ radius' <= radiusub
          /\ (gamma' < gamma \/ gamma = gammalb)]_vars

\* C10: after a trial with rho >= zeta2 the radius is
\* min(radius / decay_radius_step, radiusub): at most radiusub, strictly
\* larger than before when it was below radiusub and radiusub otherwise;
\* gamma is strictly smaller than before and at least gammalb when it was
\* above gammalb, and gammalb otherwise.
C10_AggressiveUpdate ==
    [][AggressivePass =>
          /\ IsDRSOMB => /\ radius' <= radiusub
                         /\ radius < radiusub => radius' > radius
                         /\ radius >= radiusub => radius' = radiusub
          /\ gamma > gammalb => (gamma' < gamma /\ gamma' >= gammalb)
          /\ gamma <= gammalb => gamma' = gammalb]_vars

\* a trial with rho >= zeta2 after the radius had been shrunk below radiusub
C10_Witness ==
    /\ IsDRSOMB
    /\ pc = "exit"
    /\ RhoGe(rho, Zeta2)
    /\ iter_adj >= 2
    /\ radius < radiusub
    /\ gamma > gammalb

(***************************************************************************)
(* Properties of the subproblem solver.                                     *)
(***************************************************************************)
\* the metric compute_step hands to solve_alpha
Metric(q) == IF q.tr = "a" THEN Eye(q.dim) ELSE q.G
HasPositiveEigenvalue(q) == EigTwice(q.Q, q.dim)[2] > 0
HasNegativeEigenvalue(q) == EigTwice(q.Q, q.dim)[1] < 0

\* C6 as stated: for Q with a positive eigenvalue, G the identity or a Gram
\* matrix and gamma in (0, 1], the alpha of _compute_root gives
\* trs_est >= 0.
C6_PredictedDecreaseNonNegative ==
    (sol.kind = "root" /\ HasPositiveEigenvalue(qp) /\ qp.gn <= GammaDen)
        => sol.tn >= 0

\* C6: for Q with a positive eigenvalue, the identity as metric and gamma
\* in (0, 1], the alpha of _compute_root gives trs_est >= 0.
C6_PredictedDecreaseNonNegativeIdentity ==
    (/\ sol.kind = "root"
     /\ HasPositiveEigenvalue(qp)
     /\ qp.gn <= GammaDen
     /\ Metric(qp) = Eye(qp.dim))
        => sol.tn >= 0

\* an indefinite Q solved by _compute_root under the identity metric
C6_Witness ==
    /\ sol.kind = "root"
    /\ qp.dim = 2
    /\ HasPositiveEigenvalue(qp)
    /\ HasNegativeEigenvalue(qp)
    /\ qp.gn < GammaDen
    /\ Metric(qp) = Eye(qp.dim)
    /\ sol.tn > 0

\* C7: for a fixed Q and gamma1 <= gamma2 in (0, 1] the multiplier of
\* _compute_root at gamma1 is at most the one at gamma2.
C7_MultiplierMonotone ==
    (/\ sol.kind = "root"
     /\ sol_prev.kind = "root"
     /\ sol_prev.gn <= sol.gn
     /\ sol.gn <= GammaDen)
        => sol_prev.lmb <= sol.lmb

\* two multipliers of a Q whose largest eigenvalue is not above lb
C7_Witness ==
    /\ sol.kind = "root"
    /\ sol_prev.kind = "root"
    /\ sol_prev.gn < sol.gn
    /\ sol.gn <= GammaDen
    /\ EigTwice(qp.Q, qp.dim)[2] <= StabilizingBound(EigTwice(qp.Q, qp.dim)[1])
    /\ sol_prev.lmb < sol.lmb

\* lb = max(0, -lmin) of the Q of the subproblem, doubled
C20_lb2 ==
    IF EigTwice(qp.Q, qp.dim)[1] < 0 THEN -EigTwice(qp.Q, qp.dim)[1] ELSE 0

\* lmax of the Q of the subproblem, doubled
C20_lmax2 == EigTwice(qp.Q, qp.dim)[2]

\* alpha solves (Q + lambda * tr) alpha = -c for the lambda returned
C20_AlphaSolvesShifted ==
    LET tr == Metric(qp)
    IN  \A i \in 1..qp.dim :
            Dot([j \in 1..qp.dim |->
                    2 * GammaDen * MetricDen * qp.Q[i][j] + sol.lmb * tr[i][j]],
                sol.an, qp.dim)
                = -2 * GammaDen * MetricDen * qp.c[i] * sol.ad

\* C20 as stated: the multiplier of _compute_root is
\* lambda = gamma * max(lmax, lb + 1) + max(1 - gamma, 0) * lb, and alpha
\* solves (Q + lambda * tr) alpha = -c.  (Q is in units of 1000, sol.lmb is
\* 2 * GammaDen * lambda: both sides are multiplied by 1000.)
C20_MultiplierFormula ==
    sol.kind = "root" =>
        /\ 1000 * sol.lmb =
              qp.gn * (IF 1000 * C20_lmax2 >= 1000 * C20_lb2 + 2
                       THEN 1000 * C20_lmax2 ELSE 1000 * C20_lb2 + 2)
              + (IF GammaDen - qp.gn > 0 THEN GammaDen - qp.gn ELSE 0)
                  * 1000 * C20_lb2
        /\ C20_AlphaSolvesShifted

\* C20: whenever solve_alpha takes the root-finding branch, the multiplier
\* is lambda = gamma * lmax' + max(1 - gamma, 0) * lb with lmax' = lmax if
\* lmax > lb and lmax' = lb + 1e4 otherwise, and alpha solves
\* (Q + lambda * tr) alpha = -c.
C20_MultiplierFormulaPadded ==
    sol.kind = "root" =>
        /\ sol.lmb =
              qp.gn * (IF C20_lmax2 > C20_lb2
                       THEN C20_lmax2 ELSE C20_lb2 + 2 * Pad)
              + (IF GammaDen - qp.gn > 0 THEN GammaDen - qp.gn ELSE 0) * C20_lb2
        /\ C20_AlphaSolvesShifted

\* a multiplier computed for a Q whose largest eigenvalue is positive and
\* not above lb, at gamma < 1, with a nonzero alpha
C20_Witness ==
    /\ sol.kind = "root"
    /\ sol_prev.kind = "none"
    /\ C20_lmax2 > 0
    /\ C20_lmax2 <= C20_lb2
    /\ qp.gn < GammaDen
    /\ \E i \in 1..qp.dim : sol.an[i] # 0

\* C21: the norm returned by solve_alpha is the metric norm
\* sqrt(alpha^T tr alpha) of the alpha it returns, in the root-finding
\* branch and in the fallback branch, clipped or not (the squares are
\* compared: sol.nn / sol.nd with alpha^T tr alpha).
C21_NormOfReturnedAlpha ==
    sol.kind \in {"root", "fallback"} =>
        sol.nn * MetricDen * sol.ad * sol.ad
            = Quad(Metric(qp), sol.an, qp.dim) * sol.nd

\* the norm returned for the larger gamma is above the one returned before
NormGrew == FracLess(sol_prev.nn, sol_prev.nd, sol.nn, sol.nd)

\* C8 as stated: for fixed (Q, c, G) and gamma1 <= gamma2 in (0, 1] the
\* metric norm of the step at gamma2 is at most the one at gamma1.
C8_StepNormMonotone ==
    (/\ sol.kind \in {"root", "fallback"}
     /\ sol_prev.kind \in {"root", "fallback"}
     /\ sol_prev.gn <= sol.gn
     /\ sol.gn <= GammaDen)
        => ~NormGrew

\* C8: for fixed (Q, c), the identity as metric and gamma1 <= gamma2 in
\* (0, 1] the norm of the step at gamma2 is at most the one at gamma1.
C8_StepNormMonotoneIdentity ==
    (/\ sol.kind \in {"root", "fallback"}
     /\ sol_prev.kind \in {"root", "fallback"}
     /\ sol_prev.gn <= sol.gn
     /\ sol.gn <= GammaDen
     /\ Metric(qp) = Eye(qp.dim))
        => ~NormGrew

\* a step of _compute_root that got strictly shorter under the identity
C8_Witness ==
    /\ sol.kind = "root"
    /\ sol_prev.kind = "root"
    /\ sol_prev.gn < sol.gn
    /\ sol.gn <= GammaDen
    /\ qp.dim = 2
    /\ HasNegativeEigenvalue(qp)
    /\ Metric(qp) = Eye(qp.dim)
    /\ FracLess(sol.nn, sol.nd, sol_prev.nn, sol_prev.nd)

\* C13: whenever the solve of (Q + lambda G) alpha = -c fails, the solver
\* retries with lambda + 1e-4 and returns an alpha: for no (Q, G, gamma) of
\* a step, singular G of zero or parallel directions included, does the
\* failure of the linear solve leave compute_step, and so step.
C13_SingularSystemRecovered == sol.kind # "raised"

(***************************************************************************)
(* SpecModel: update_trust_region at the successive calls of step.          *)
(***************************************************************************)
SolverIdle ==
    /\ qp = NoQP
    /\ sol = NoSol
    /\ sol_prev = NoSol

InitModelSpec ==
    /\ StepIdle
    /\ SolverIdle
    /\ mcfg \in ModelConfigs
    /\ mdl = InitModel

UpdateTrustRegion ==
    /\ mdl.status \in {"init", "next"}
    /\ \E g \in AllGrads, rest \in [2..mcfg.dim -> DirVecs],
          o \in ObjectivesOf(mcfg) :
          \* directions = [-g, the momentum buffers]
          LET dirs == [i \in 1..mcfg.dim |->
                         IF i = 1 THEN <<-g[1], -g[2]>> ELSE rest[i]]
              Qs == ExactQ(dirs, o.H, mcfg.dim)
              q == IF o.exact THEN LeastSquaresFit(mcfg, Qs) ELSE o.q
              md == update_trust_region(mcfg, mdl, dirs, g, o.H, q)
          IN  \* Qstar: the Q* of the objective at the call that set self.Q;
              \* q_fit: the q from which compute_Q_via_interpolation read it
              mdl' = IF md.status # "updated" THEN md
                     ELSE [md EXCEPT !.Qstar = IF o.exact THEN Qs ELSE <<>>,
                                     !.q_fit = IF /\ mcfg.variant # "drsomf"
                                                  /\ mcfg.qpmode = "Interpolation"
                                               THEN q ELSE <<>>]
    /\ UNCHANGED <<mcfg, stepvars, solvervars>>

\* self.iter += 1 at the end of step
AdvanceIter ==
    /\ mdl.status \in {"updated", "skipped"}
    /\ mdl.iter < MaxModelIter
    /\ mdl' = [mdl EXCEPT !.iter = mdl.iter + 1, !.status = "next",
                          !.c_built = InitModel.c_built,
                          !.G_built = InitModel.G_built,
                          !.gram = FALSE]
    /\ UNCHANGED <<mcfg, stepvars, solvervars>>

NextModel == UpdateTrustRegion \/ AdvanceIter

SpecModel == InitModelSpec /\ [][NextModel]_vars

(***************************************************************************)
(* Properties of the reduced model.                                         *)
(***************************************************************************)
IsSymmetric(A, n) == \A i \in 1..n : \A j \in 1..n : A[i][j] = A[j][i]

\* C9: after update_trust_region Q[i, j] = Q[j, i] and G[i, j] = G[j, i] for
\* all i, j < dim, for Hessian-vector products and for interpolation, for
\* the Gram matrix and for the identity.
C9_ModelSymmetric ==
    mdl.status \in {"updated", "skipped"} =>
        /\ IsSymmetric(mdl.Q, mcfg.dim)
        /\ IsSymmetric(mdl.G, mcfg.dim)

\* a call that was skipped after one that built a Q and a Gram matrix with
\* entries off the diagonal
C9_Witness ==
    /\ mdl.status = "skipped"
    /\ mcfg.dim = 3
    /\ mcfg.metric = "gram"
    /\ mcfg.qpmode = "Interpolation"
    /\ mdl.Q[1][3] # 0
    /\ mdl.G[2][3] # 0
    /\ mdl.G[1][2] # 0
    /\ mdl.Q[1][2] # mdl.Q[2][3]

\* C22: after every call of update_trust_region that returns, self.c and
\* self.G are the c and the G computed from the directions and the gradient
\* of that call, for every qp_freq.
C22_ModelRebuiltEveryCall ==
    mdl.status \in {"updated", "skipped"} =>
        /\ mdl.c = mdl.c_built
        /\ mdl.G = mdl.G_built

\* C23: with the isotropic option, after update_trust_region self.G is the
\* dim x dim identity and no inner product of two directions was computed
\* for it, for Hessian-vector products and interpolation, in the three
\* variants.
C23_IsotropicSkipsGram ==
    (mdl.status \in {"updated", "skipped"} /\ Isotropic(mcfg)) =>
        /\ mdl.G = [i \in 1..mcfg.dim |-> [j \in 1..mcfg.dim |->
                        IF i = j THEN 1 ELSE 0]]
        /\ ~mdl.gram

\* C28: the Q that compute_Q_via_interpolation returns has in Q[i, j],
\* i <= j, the fitted coefficient of the basis term of the pair (i, j) in
\* the row of build_natural_basis.
C28_CoefficientOfItsBasisTerm ==
    (mdl.status = "updated" /\ mdl.q_fit # <<>>) =>
        \A i \in 1..mcfg.dim : \A j \in i..mcfg.dim :
            mdl.Q[i][j] = mdl.q_fit[BasisIndex(i, j, mcfg.dim)]

\* C11: when the objective is exactly quadratic on the subspace,
\* f(x + sum_j a_j d_j) = f(x) + c.a + 1/2 a^T Q* a, the Q that
\* compute_Q_via_interpolation returns is Q*, for dim = 1, 2 and 3.
C11_InterpolationRecoversQuadratic ==
    (/\ mdl.status = "updated"
     /\ mcfg.qpmode = "Interpolation"
     /\ mdl.Qstar # <<>>)
        => mdl.Q = mdl.Qstar

\* the pass of the loop in which compute_step returned trs_est < 0
NegativePass ==
    /\ pc = "loop"
    /\ pc' = "loop"
    /\ passes' = passes + 1
    /\ trs_est' < 0

\* C17: a pass with trs_est < 0 sets gamma to max(gamma * beta1, 1e-4),
\* evaluates no trial, and uses one unit of the budget of the loop: the
\* counter iter_adj is one greater after the pass.
C17_NegativePassCounts ==
    [][NegativePass =>
          /\ gamma' = IncreaseGamma(gamma)
          /\ params' = params /\ d_new' = d_new /\ rho' = rho
          /\ iter_adj' = iter_adj + 1]_vars

\* the return of a call in which every pass of the loop evaluated a trial
\* that was rejected: iter_adj counts these passes from 1
RejectFinalAfterTrialsOnly ==
    /\ pc = "loop"
    /\ pc' = "idle"
    /\ outcome' = "REJECT_FINAL"
    /\ passes = iter_adj - 1

\* C18: with max_iter = N, and every pass giving trs_est >= 0 and a
\* rejected trial, a call of step evaluates exactly N trials before
\* REJECT-FINAL.
C18_ExactlyMaxIterTrials ==
    [][RejectFinalAfterTrialsOnly => passes = max_iter_adj]_vars

\* a pass of the loop that evaluated a trial
TrialEvaluated ==
    /\ pc = "loop"
    /\ passes' = passes + 1
    /\ rho'.k # "none"
    /\ trs_est' >= 0

\* the updates of gamma of C19, in the log domain
C19_GammaRules ==
    /\ RhoLe(rho', Zeta1) =>
          gamma' = (IF gamma + LogBeta1 >= LogGammaFloor
                    THEN gamma + LogBeta1 ELSE LogGammaFloor)
    /\ RhoGe(rho', Zeta2) =>
          gamma' = (IF gamma <= 0 \/ gamma - LogBeta2 <= gammalb
                       \/ LogOfLn(gamma) <= gammalb
                    THEN gammalb
                    ELSE IF gamma - LogBeta2 <= LogOfLn(gamma)
                    THEN gamma - LogBeta2 ELSE LogOfLn(gamma))
    /\ (RhoGt(rho', Zeta1) /\ ~RhoGe(rho', Zeta2)) => gamma' = gamma

\* C19 as stated: after each evaluated trial, if rho <= zeta1 then
\* gamma <- max(gamma * beta1, 1e-4) and the radius is multiplied by
\* decay_radius_step; if rho >= zeta2 then
\* gamma <- max(gammalb, min(gamma / beta2, ln gamma)) and
\* radius <- min(radius / decay_radius_step, radiusub); if
\* zeta1 < rho < zeta2 both are unchanged.
C19_ThreeRules ==
    [][TrialEvaluated =>
          /\ C19_GammaRules
          /\ IsDRSOMB =>
                /\ RhoLe(rho', Zeta1) => radius' = radius + LogDecayRadiusStep
                /\ RhoGe(rho', Zeta2) =>
                      radius' = (IF radius - LogDecayRadiusStep <= radiusub
                                 THEN radius - LogDecayRadiusStep ELSE radiusub)
                /\ (RhoGt(rho', Zeta1) /\ ~RhoGe(rho', Zeta2)) =>
                      radius' = radius]_vars

\* C19: the same, with the radius of the case rho <= zeta1 set to
\* max(radius * decay_radius_step, 1e-8).
C19_ThreeRulesFloored ==
    [][TrialEvaluated =>
          /\ C19_GammaRules
          /\ IsDRSOMB =>
                /\ RhoLe(rho', Zeta1) =>
                      radius' = (IF radius + LogDecayRadiusStep >= LogRadiusFloor
                                 THEN radius + LogDecayRadiusStep
                                 ELSE LogRadiusFloor)
                /\ RhoGe(rho', Zeta2) =>
                      radius' = (IF radius - LogDecayRadiusStep <= radiusub
                                 THEN radius - LogDecayRadiusStep ELSE radiusub)
                /\ (RhoGt(rho', Zeta1) /\ ~RhoGe(rho', Zeta2)) =>
                      radius' = radius]_vars

\* the thirteenth trial in a row with rho <= zeta1: the radius has come to
\* its floor, and gamma is above 1
C19_Witness ==
    /\ IsDRSOMB
    /\ passes = 13
    /\ RhoLe(rho, Zeta1)
    /\ radius = LogRadiusFloor
    /\ gamma > 0

\* a pass of the loop whose trial has rho > eta: ACCEPT
AcceptedPass ==
    /\ pc = "loop"
    /\ passes' = passes + 1
    /\ trs_est' >= 0
    /\ RhoGt(rho', Eta)

\* the end of a call of step in which no trial was accepted: the restart
RestartReturn ==
    /\ pc \in {"loop", "exit"}
    /\ pc' = "idle"
    /\ ~acc_step
    /\ outcome' = "REJECT_FINAL"

C26_RadiusBelowUpperBound == variant = "drsomb" => radius <= radiusub

\* C27 as stated: gamma <= 1 in every reachable state (the logarithm of
\* gamma is at most 0).
C27_GammaAtMostOne == gamma <= 0

\* C27: gamma is positive in every reachable state, and at least the
\* gammalb of the constructor.
C27_GammaAboveFirstLowerBound ==
    gamma >= (IF variant = "drsom" THEN LogGammaLb0Env ELSE LogGammaLb0)

\* gamma = 12.5 after four increases by beta1 in a row, the last one by a
\* conservative update
C27_Witness ==
    /\ gamma = LogGammaFloor + 3 * LogBeta1
    /\ gamma > 0
    /\ RhoLe(rho, Zeta1)

RatioComputed ==
    /\ TrialEvaluated
    /\ pc' # "raised" \/ acc_step'

\* C30: whenever rho = loss_dec / trs_est is computed, trs_est > 0.
C30_RatioWellDefined == [][RatioComputed => trs_est' > 0]_vars

\* C16: gamma >= gammalb after construction and at the entry to and on the
\* return from every call of step, the calls at which the decay rule
\* rescales gammalb included (DRSOMB of drsomb.py, whose step holds the
\* decay rule, and DRSOMF, which has none).
C16_GammaAboveLowerBound ==
    (pc = "idle" /\ variant \in {"drsomb", "drsomf"}) => gamma >= gammalb

(***************************************************************************)
(* Properties of the configuration.                                         *)
(***************************************************************************)
\* C14: an option_tr other than 'a' and 'p' is refused when the optimizer
\* is constructed: no call of step starts, and the closure is never
\* evaluated, under such a configuration.
C14_InvalidConfigurationNeverSteps ==
    option_tr \notin {"a", "p"} =>
        pc = "idle" /\ iter = 0 /\ outcome = "none"

\* C15: when a parameter of the optimizer has no gradient after the
\* closure ran (p.grad is None), step leaves the parameter out and
\* completes normally.
C15_MissingGradientTolerated ==
    ~HasAllGrads(grad) => pc # "raised"

(***************************************************************************)
(* Properties of the snapshot.                                              *)
(***************************************************************************)
\* C12: the optimizer loaded from the snapshot of this one, taken after any
\* number of calls of step, has the gamma, the radius, the momentum buffers
\* and the iter of this one.
C12_CheckpointRoundTrip ==
    restored.taken =>
        /\ restored.gamma = gamma
        /\ restored.radius = radius
        /\ restored.state = state
        /\ restored.iter = iter

====
